---- MODULE Spec2Model ----
(***************************************************************************)
(* Firefox Workspaces background script (src/background.js): the window    *)
(* binding table, the workspace registry, the per-workspace snapshot store *)
(* and the debounced auto-save, as a state machine.                        *)
(*                                                                         *)
(* Every async handler is a process in a slot of `procs`.  One action is   *)
(* one run of a handler from the resolution of the operation it awaits to  *)
(* the next await: the awaited operation takes effect (a read is sampled,  *)
(* a write is applied, a browser call acts) when it resolves, and the      *)
(* synchronous code after it runs in the same step.  Consecutive awaits    *)
(* with no effect on the modelled state between them are one suspension.   *)
(* Browser events are delivered in the step in which the browser changes   *)
(* (their listeners' synchronous part runs in that step).                  *)
(***************************************************************************)
EXTENDS Integers, Sequences, FiniteSets, TLC

\* ------------------------------------------------------------ bounds
\* Window ids and workspace ids are 1..MaxWindowId and 1..MaxWorkspaces.
MaxWindowId == 4
MaxWorkspaces == 2
MaxTimers == 3
\* Handlers in flight: calls (messages, menu clicks) and timer-started captures.
MaxCalls == 1
MaxCaptures == 1
\* Length of a run: the user's tab events and handler calls
\* (messages, menu clicks) together.
MaxActions == 3
\* Date.now() takes the values 0..MaxClock.
MaxClock == 2

\* ------------------------------------------------- JS values, domains
\* `undefined`: a missing key of windowBindings / saveTimers, a missing
\* property of an event argument, the result of a failed find.
Undefined == 0
\* Storage.getLastHash of a workspace with no stored fingerprint.
NoHash == -1
HashMod == 65536

WindowIds == 1..MaxWindowId
WsIds == 1..MaxWorkspaces
TimerIds == 1..MaxTimers
CallSlots == 1..MaxCalls
CaptureSlots == (MaxCalls + 1)..(MaxCalls + MaxCaptures)
Slots == CallSlots \cup CaptureSlots

UrlA == [scheme |-> "https", rest |-> "a.example"]
UrlB == [scheme |-> "https", rest |-> "b.example"]
UrlNewTab == [scheme |-> "about", rest |-> "newtab"]
\* The URLs a user navigates a tab to.
UserUrls == {UrlB}

NoTab == [id |-> 0, u |-> UrlNewTab, p |-> FALSE, windowId |-> 0]

\* ------------------------------------------------------ pure helpers
Min(S) == CHOOSE x \in S : \A y \in S : x <= y

RemoveAt(s, i) == [j \in 1..(Len(s) - 1) |-> IF j < i THEN s[j] ELSE s[j + 1]]

SwapAt(s, i) ==
    [j \in 1..Len(s) |-> IF j = i THEN s[i + 1] ELSE IF j = i + 1 THEN s[i] ELSE s[j]]

\* shared/utils.js shouldExcludeUrl: internal schemes and an empty URL.
shouldExcludeUrl(url) == url.scheme \in {"about", "chrome", "moz-extension", ""}

TitleOf(url) == IF url = UrlNewTab THEN "New Tab" ELSE url.rest

\* shared/utils.js createTabDescriptor: url, title, pinned; the tab's id and
\* window are dropped.
createTabDescriptor(tab) == [u |-> tab.u, t |-> TitleOf(tab.u), p |-> tab.p]

DefaultDescriptor == [u |-> UrlNewTab, t |-> "New Tab", p |-> FALSE]

UrlCode(url) ==
    CASE url = UrlA -> 1
      [] url = UrlB -> 2
      [] OTHER -> 3

DescriptorCode(d) == 2 * UrlCode(d.u) + (IF d.p THEN 1 ELSE 0)

\* shared/utils.js quickHash over JSON.stringify(descriptors): a
\* deterministic, order-sensitive rolling hash of the serialized sequence.
RECURSIVE HashFrom(_, _)
HashFrom(h, s) ==
    IF s = <<>> THEN h
    ELSE HashFrom((31 * h + DescriptorCode(Head(s))) % HashMod, Tail(s))

quickHash(descriptors) == HashFrom(7, descriptors)

\* ------------------------------------------------------------ state
VARIABLES
    liveWindows,     \* browser: the ids of the open windows
    windowTabs,      \* browser: window id -> its tabs, in order
    nextWindowId,    \* browser: the id the next created window gets
    nextTabId,       \* browser: the id the next created tab gets
    workspaceIndex,  \* in-memory registry: sequence of workspace records
    windowBindings,  \* in-memory binding table: window id -> workspace id
    settings,        \* autoSave, includePinnedTabs, focusExistingWindow
    now,             \* the clock: what Date.now() returns
    saveTimers,      \* workspace id -> handle of the timer last armed for it
    pendingTimers,   \* event loop: the timers armed and not yet fired or cleared
    menuIds,         \* workspace ids of the "Move to Workspace" menu items
    store,           \* Storage: workspace id -> snapshot, version, fingerprint
    nextWsId,        \* generateId: the next fresh workspace id
    procs,           \* slot -> the async handler suspended there
    actionCount,     \* the user's tab events and handler calls so far
    log              \* what the last step did (observation only)

browser == <<liveWindows, windowTabs, nextWindowId, nextTabId>>
timers == <<saveTimers, pendingTimers>>
vars == <<liveWindows, windowTabs, nextWindowId, nextTabId, workspaceIndex,
          windowBindings, settings, now, saveTimers, pendingTimers, menuIds, store,
          nextWsId, procs, actionCount, log>>

NoEntry == [present |-> FALSE, tabs |-> <<>>, version |-> 0, hash |-> NoHash]
NoPre == [index |-> <<>>, bindings |-> <<>>, store |-> <<>>, live |-> {}]
Idle ==
    [pc |-> "idle", workspaceId |-> Undefined, windowId |-> Undefined,
     tabs |-> <<>>, newHash |-> NoHash, version |-> 0, tab |-> NoTab,
     entries |-> <<>>, at |-> 0, name |-> "", solo |-> FALSE, pre |-> NoPre,
     caught |-> FALSE, unarmed |-> FALSE, after |-> FALSE]
NoLog == [kind |-> "none"]

\* The state a handler starts from, kept while it runs alone.
PreState ==
    [index |-> workspaceIndex, bindings |-> windowBindings, store |-> store,
     live |-> liveWindows]

\* A step of anything else ends a handler's running alone.
Disturb(p) == IF p.solo THEN [p EXCEPT !.solo = FALSE, !.pre = NoPre] ELSE p
Disturbed == [s \in Slots |-> Disturb(procs[s])]
WithProc(s, p) == [i \in Slots |-> IF i = s THEN p ELSE Disturb(procs[i])]

FreeSlot(s, among) ==
    /\ s \in among
    /\ procs[s].pc = "idle"
    /\ \A i \in among : i < s => procs[i].pc # "idle"
Quiet == \A s \in Slots : procs[s].pc = "idle"

\* ------------------------------------------------------ registry, bindings
IndexIds(index) == {index[i].id : i \in 1..Len(index)}

\* A faulty lookup, for comparison: the first entry, whatever its id.
findIndexFirst(index, id) == IF index = <<>> THEN Undefined ELSE 1

\* workspaceIndex.findIndex(ws => ws.id === id): 0 when there is none.
findIndex(index, id) ==
    IF id \in IndexIds(index)
    THEN Min({i \in 1..Len(index) : index[i].id = id})
    ELSE Undefined

\* Object.entries(windowBindings) keeps integer keys in ascending order;
\* the keys bound to workspaceId, as a sequence.
RECURSIVE EntriesFrom(_, _, _)
EntriesFrom(bindings, workspaceId, w) ==
    IF w > MaxWindowId THEN <<>>
    ELSE (IF bindings[w] = workspaceId THEN <<w>> ELSE <<>>)
         \o EntriesFrom(bindings, workspaceId, w + 1)

boundWindows(bindings, workspaceId) == EntriesFrom(bindings, workspaceId, 1)

\* Object.entries(windowBindings).find(([, wsId]) => wsId === id)?.[0]
findWindow(bindings, workspaceId) ==
    IF boundWindows(bindings, workspaceId) = <<>> THEN Undefined
    ELSE Head(boundWindows(bindings, workspaceId))

\* browser.tabs.query({windowId}): the tabs of a window; none for an id
\* that names no open window.
tabsQuery(windowId) ==
    IF windowId \in liveWindows THEN windowTabs[windowId] ELSE <<>>

\* A faulty filter, for comparison: every tab is kept.
EligibleAny(tab) == TRUE

Eligible(tab) == ~shouldExcludeUrl(tab.u) /\ (settings.includePinnedTabs \/ ~tab.p)

\* tabs.filter(excluded).filter(pinned).map(createTabDescriptor)
captureDescriptors(tabs) ==
    LET kept == SelectSeq(tabs, Eligible)
    IN [i \in 1..Len(kept) |-> createTabDescriptor(kept[i])]

\* ------------------------------------------------------------- Storage
getLastHash(st, id) == st[id].hash
getWorkspaceVersion(st, id) == IF st[id].present THEN st[id].version ELSE 0
getWorkspaceTabs(st, id) == IF st[id].present THEN st[id].tabs ELSE <<>>
saveWorkspaceTabs(st, id, tabs, version) ==
    [st EXCEPT ![id] = [@ EXCEPT !.present = TRUE, !.tabs = tabs, !.version = version]]
saveLastHash(st, id, hash) == [st EXCEPT ![id].hash = hash]
deleteWorkspaceData(st, id) == [st EXCEPT ![id] = NoEntry]

\* ------------------------------------------------------------- debounce
TimersOf(pending, workspaceId) == {t \in pending : t.workspaceId = workspaceId}

clearTimeout(pending, handle) == {t \in pending : t.id # handle}

\* setTimeout returns a handle no live reference holds.
FreshHandle(ts, workspaceId) ==
    LET used == {t.id : t \in ts.pending}
                \cup {ts.saved[w] : w \in WsIds \ {workspaceId}}
        free == TimerIds \ used
    IN IF free = {} THEN Undefined ELSE Min(free)

\* handleTabChange(info) on the timer state ts = [saved, pending].
handleTabChange(ts, bindings, info) ==
    IF ~settings.autoSave THEN ts
    ELSE
      LET windowId == IF info.windowId # Undefined THEN info.windowId ELSE info.id
          workspaceId ==
              IF windowId \in WindowIds THEN bindings[windowId] ELSE Undefined
      IN IF workspaceId = Undefined THEN ts
         ELSE
           LET cleared ==
                   [ts EXCEPT !.pending =
                       IF ts.saved[workspaceId] # Undefined
                       THEN clearTimeout(ts.pending, ts.saved[workspaceId])
                       ELSE ts.pending]
               handle == FreshHandle(cleared, workspaceId)
           IN [saved |-> [cleared.saved EXCEPT ![workspaceId] = handle],
               pending |-> cleared.pending \cup
                   {[id |-> handle, workspaceId |-> workspaceId, windowId |-> windowId]}]

TimerState == [saved |-> saveTimers, pending |-> pendingTimers]
SetTimers(ts) ==
    /\ \A t \in ts.pending : t.id # Undefined
    /\ saveTimers' = ts.saved
    /\ pendingTimers' = ts.pending

\* The argument each listener of setupTabListeners hands to handleTabChange.
\* onCreated passes the tab; onRemoved and onMoved pass their first argument,
\* the tab id (a number: it has no windowId and no id property); the others
\* build {windowId}.
ListenerInfo(kind, tabId, windowId) ==
    IF kind \in {"removed", "moved"}
    THEN [windowId |-> Undefined, id |-> Undefined]
    ELSE IF kind = "created" THEN [windowId |-> windowId, id |-> tabId]
    ELSE [windowId |-> windowId, id |-> Undefined]

\* ---------------------------------------------------------------- Init
\* A fresh profile after init(): no workspace, no binding, no timer; two
\* open windows.
InitTabs ==
    [w \in WindowIds |->
        IF w = 1 THEN <<[id |-> 1, u |-> UrlA, p |-> FALSE]>>
        ELSE IF w = 2 THEN <<[id |-> 2, u |-> UrlB, p |-> TRUE],
                             [id |-> 3, u |-> UrlA, p |-> FALSE]>>
        ELSE <<>>]

Init ==
    /\ liveWindows = {1, 2}
    /\ windowTabs = InitTabs
    /\ nextWindowId = 3
    /\ nextTabId = 4
    /\ workspaceIndex = <<>>
    /\ windowBindings = [w \in WindowIds |-> Undefined]
    /\ settings \in [autoSave : BOOLEAN, includePinnedTabs : BOOLEAN,
                      focusExistingWindow : BOOLEAN]
    /\ now = 0
    /\ saveTimers = [w \in WsIds |-> Undefined]
    /\ pendingTimers = {}
    /\ menuIds = {}
    /\ store = [w \in WsIds |-> NoEntry]
    /\ nextWsId = 1
    /\ procs = [s \in Slots |-> Idle]
    /\ actionCount = 0
    /\ log = NoLog

\* ------------------------------------------------------- browser events
Event(kind, windowId) == [event |-> kind, windowId |-> windowId]

\* The user opens a new tab (about:newtab): tabs.onCreated ->
\* handleTabChange(tab).
TabCreated(w) ==
    /\ w \in liveWindows
    /\ windowTabs' = [windowTabs EXCEPT
            ![w] = Append(@, [id |-> nextTabId, u |-> UrlNewTab, p |-> FALSE])]
    /\ nextTabId' = nextTabId + 1
    /\ SetTimers(handleTabChange(TimerState, windowBindings,
                                 ListenerInfo("created", nextTabId, w)))
    /\ actionCount < MaxActions
    /\ actionCount' = actionCount + 1
    /\ procs' = Disturbed
    /\ log' = [kind |-> "event", events |-> {Event("created", w)}]
    /\ UNCHANGED <<liveWindows, nextWindowId, workspaceIndex, windowBindings,
                   settings, now, menuIds, store, nextWsId>>

\* The user closes a tab that is not the window's last:
\* tabs.onRemoved -> handleTabChange(tabId, removeInfo).
TabRemoved(w, i) ==
    /\ w \in liveWindows
    /\ Len(windowTabs[w]) > 1
    /\ i \in 1..Len(windowTabs[w])
    /\ windowTabs' = [windowTabs EXCEPT ![w] = RemoveAt(@, i)]
    /\ SetTimers(handleTabChange(TimerState, windowBindings,
                                 ListenerInfo("removed", windowTabs[w][i].id, w)))
    /\ actionCount < MaxActions
    /\ actionCount' = actionCount + 1
    /\ procs' = Disturbed
    /\ log' = [kind |-> "event", events |-> {Event("removed", w)}]
    /\ UNCHANGED <<liveWindows, nextWindowId, nextTabId, workspaceIndex,
                   windowBindings, settings, now, menuIds, store, nextWsId>>

\* The user reorders two neighbouring tabs:
\* tabs.onMoved -> handleTabChange(tabId, moveInfo).
TabMoved(w, i) ==
    /\ w \in liveWindows
    /\ i \in 1..(Len(windowTabs[w]) - 1)
    /\ windowTabs[w][i].p = windowTabs[w][i + 1].p
    /\ windowTabs' = [windowTabs EXCEPT ![w] = SwapAt(@, i)]
    /\ SetTimers(handleTabChange(TimerState, windowBindings,
                                 ListenerInfo("moved", windowTabs[w][i].id, w)))
    /\ actionCount < MaxActions
    /\ actionCount' = actionCount + 1
    /\ procs' = Disturbed
    /\ log' = [kind |-> "event", events |-> {Event("moved", w)}]
    /\ UNCHANGED <<liveWindows, nextWindowId, nextTabId, workspaceIndex,
                   windowBindings, settings, now, menuIds, store, nextWsId>>

\* A tab navigates: tabs.onUpdated with changeInfo.url ->
\* handleTabChange({windowId: tab.windowId}).
TabUpdated(w, i, u) ==
    /\ w \in liveWindows
    /\ i \in 1..Len(windowTabs[w])
    /\ windowTabs[w][i].u # u
    /\ windowTabs' = [windowTabs EXCEPT ![w][i].u = u]
    /\ SetTimers(handleTabChange(TimerState, windowBindings,
                                 ListenerInfo("updated", windowTabs[w][i].id, w)))
    /\ actionCount < MaxActions
    /\ actionCount' = actionCount + 1
    /\ procs' = Disturbed
    /\ log' = [kind |-> "event", events |-> {Event("updated", w)}]
    /\ UNCHANGED <<liveWindows, nextWindowId, nextTabId, workspaceIndex,
                   windowBindings, settings, now, menuIds, store, nextWsId>>

\* The user drags a tab to another window: tabs.onDetached ->
\* handleTabChange({windowId: oldWindowId}), then tabs.onAttached ->
\* handleTabChange({windowId: newWindowId}).
TabDragged(w, i, target) ==
    /\ w \in liveWindows /\ target \in liveWindows /\ w # target
    /\ Len(windowTabs[w]) > 1
    /\ i \in 1..Len(windowTabs[w])
    /\ windowTabs' = [windowTabs EXCEPT
            ![w] = RemoveAt(@, i),
            ![target] = Append(@, [windowTabs[w][i] EXCEPT !.p = FALSE])]
    /\ SetTimers(handleTabChange(
            handleTabChange(TimerState, windowBindings,
                            ListenerInfo("detached", windowTabs[w][i].id, w)),
            windowBindings, ListenerInfo("attached", windowTabs[w][i].id, target)))
    /\ actionCount < MaxActions
    /\ actionCount' = actionCount + 1
    /\ procs' = Disturbed
    /\ log' = [kind |-> "event",
               events |-> {Event("detached", w), Event("attached", target)}]
    /\ UNCHANGED <<liveWindows, nextWindowId, nextTabId, workspaceIndex,
                   windowBindings, settings, now, menuIds, store, nextWsId>>

\* windows.onRemoved listener: unbind the window when it is bound.
onWindowRemoved(bindings, windowId) ==
    IF bindings[windowId] # Undefined
    THEN [bindings EXCEPT ![windowId] = Undefined]
    ELSE bindings

\* The user closes a window.
WindowRemoved(w) ==
    /\ w \in liveWindows
    /\ liveWindows' = liveWindows \ {w}
    /\ windowTabs' = [windowTabs EXCEPT ![w] = <<>>]
    /\ windowBindings' = onWindowRemoved(windowBindings, w)
    /\ procs' = Disturbed
    /\ log' = [kind |-> "windowRemoved", windowId |-> w]
    /\ UNCHANGED <<actionCount, nextWindowId, nextTabId, workspaceIndex, settings, now, timers,
                   menuIds, store, nextWsId>>

\* ------------------------------------------- saveWorkspaceSnapshot
\* A debounce timer fires: saveWorkspaceSnapshot(workspaceId, windowId) of
\* the closure starts and awaits browser.tabs.query.
TimerFire(t, s) ==
    /\ t \in pendingTimers
    /\ FreeSlot(s, CaptureSlots)
    /\ pendingTimers' = pendingTimers \ {t}
    /\ procs' = WithProc(s, [Idle EXCEPT !.pc = "sn_query",
                                         !.workspaceId = t.workspaceId,
                                         !.windowId = t.windowId,
                                         !.solo = TRUE,
                                         !.pre = PreState,
                                         !.after = procs[s].caught
                                             /\ procs[s].unarmed
                                             /\ procs[s].workspaceId = t.workspaceId])
    /\ log' = [kind |-> "fire", workspaceId |-> t.workspaceId,
               windowId |-> t.windowId]
    /\ UNCHANGED <<actionCount, browser, workspaceIndex, windowBindings, settings, now,
                   saveTimers, menuIds, store, nextWsId>>

\* tabs.query resolved: filter, encode, hash; await Storage.getLastHash.
SnapshotQuery(s) ==
    /\ procs[s].pc = "sn_query"
    /\ LET tabDescriptors == captureDescriptors(tabsQuery(procs[s].windowId))
       IN procs' = WithProc(s, [procs[s] EXCEPT
              !.pc = "sn_hash",
              !.tabs = tabDescriptors,
              !.newHash = quickHash(tabDescriptors)])
    /\ log' = NoLog
    /\ UNCHANGED <<actionCount, browser, workspaceIndex, windowBindings, settings, now, timers,
                   menuIds, store, nextWsId>>

\* A faulty comparison, for comparison: a change is always seen.
unchangedNever(newHash, lastHash) == FALSE

\* newHash === lastHash
unchanged(newHash, lastHash) == newHash = lastHash

\* getLastHash resolved: return when nothing changed, else await
\* Storage.getWorkspaceVersion.
SnapshotCompare(s) ==
    /\ procs[s].pc = "sn_hash"
    /\ LET lastHash == getLastHash(store, procs[s].workspaceId)
       IN IF unchanged(procs[s].newHash, lastHash)
          THEN /\ procs' = WithProc(s, Idle)
               /\ log' = [kind |-> "skip", workspaceId |-> procs[s].workspaceId,
                          windowId |-> procs[s].windowId, tabs |-> procs[s].tabs,
                          solo |-> procs[s].solo, pre |-> procs[s].pre]
          ELSE /\ procs' = WithProc(s, [procs[s] EXCEPT !.pc = "sn_version"])
               /\ log' = NoLog
    /\ UNCHANGED <<actionCount, browser, workspaceIndex, windowBindings, settings, now, timers,
                   menuIds, store, nextWsId>>

\* const newVersion = currentVersion + 1
newVersion(currentVersion) == currentVersion + 1

\* getWorkspaceVersion resolved: newVersion; await Storage.saveWorkspaceTabs.
SnapshotVersion(s) ==
    /\ procs[s].pc = "sn_version"
    /\ procs' = WithProc(s, [procs[s] EXCEPT
           !.pc = "sn_tabs",
           !.version = newVersion(getWorkspaceVersion(store, procs[s].workspaceId))])
    /\ log' = NoLog
    /\ UNCHANGED <<actionCount, browser, workspaceIndex, windowBindings, settings, now, timers,
                   menuIds, store, nextWsId>>

\* What a snapshot write did: the entry before it and what it stored.
WriteLog(by, p, version, returned) ==
    [kind |-> "write", by |-> by, workspaceId |-> p.workspaceId,
     windowId |-> p.windowId, before |-> store[p.workspaceId],
     tabs |-> p.tabs, version |-> version, returned |-> returned,
     solo |-> p.solo, pre |-> p.pre]

\* A handler that returns {error: 'Workspace not found'} at once.
NotFound(workspaceId) ==
    [Idle EXCEPT !.workspaceId = workspaceId, !.solo = TRUE, !.pre = PreState]

\* What a handler answered when it returned or threw.
ReturnLog(op, p, result) ==
    [kind |-> "return", op |-> op, workspaceId |-> p.workspaceId,
     windowId |-> p.windowId, tab |-> p.tab, name |-> p.name, at |-> p.at,
     result |-> result, solo |-> p.solo, pre |-> p.pre]

\* saveWorkspaceTabs resolved (the snapshot is written); await saveLastHash.
SnapshotTabs(s) ==
    /\ procs[s].pc = "sn_tabs"
    /\ store' = saveWorkspaceTabs(store, procs[s].workspaceId, procs[s].tabs,
                                  procs[s].version)
    /\ procs' = WithProc(s, [procs[s] EXCEPT !.pc = "sn_last"])
    /\ log' = WriteLog("capture", procs[s], procs[s].version, FALSE)
    /\ UNCHANGED <<actionCount, browser, workspaceIndex, windowBindings, settings, now, timers,
                   menuIds, nextWsId>>

\* The registry entry's updatedAt and tabCount after a capture of n
\* descriptors at time `at`.
touchWorkspace(index, id, n, at) ==
    IF findIndex(index, id) # Undefined
    THEN [index EXCEPT ![findIndex(index, id)].tabCount = n,
                       ![findIndex(index, id)].updatedAt = at]
    ELSE index

\* saveLastHash resolved (the fingerprint is written); update the registry
\* entry when there is one and await Storage.saveWorkspaceIndex.
SnapshotLast(s) ==
    /\ procs[s].pc = "sn_last"
    /\ store' = saveLastHash(store, procs[s].workspaceId, procs[s].newHash)
    /\ workspaceIndex' = touchWorkspace(workspaceIndex, procs[s].workspaceId,
                                        Len(procs[s].tabs), now)
    /\ IF findIndex(workspaceIndex, procs[s].workspaceId) # Undefined
       THEN procs' = WithProc(s, [procs[s] EXCEPT !.pc = "sn_index"])
       ELSE procs' = WithProc(s, Idle)
    /\ log' = NoLog
    /\ UNCHANGED <<actionCount, browser, windowBindings, settings, now, timers, menuIds, nextWsId>>

\* saveWorkspaceIndex resolved: saveWorkspaceSnapshot returns.
SnapshotDone(s) ==
    /\ procs[s].pc = "sn_index"
    /\ procs' = WithProc(s, Idle)
    /\ log' = NoLog
    /\ UNCHANGED <<actionCount, browser, workspaceIndex, windowBindings, settings, now, timers,
                   menuIds, store, nextWsId>>

\* The slot of a capture that ended in the catch block of
\* saveWorkspaceSnapshot: nothing is in flight, the error is logged.  It
\* remembers whether a timer of the workspace was armed at that time.
Caught(p) ==
    [Idle EXCEPT !.caught = TRUE, !.workspaceId = p.workspaceId,
                 !.windowId = p.windowId,
                 !.unarmed = TimersOf(pendingTimers, p.workspaceId) = {}]
CaughtLog(p, step) ==
    [kind |-> "caught", workspaceId |-> p.workspaceId, windowId |-> p.windowId,
     step |-> step]

\* Storage.saveWorkspaceTabs rejected: nothing is written.
SnapshotTabsFailed(s) ==
    /\ procs[s].pc = "sn_tabs"
    /\ procs' = WithProc(s, Caught(procs[s]))
    /\ log' = CaughtLog(procs[s], "saveWorkspaceTabs")
    /\ UNCHANGED <<actionCount, browser, workspaceIndex, windowBindings, settings, now, timers,
                   menuIds, store, nextWsId>>

\* Storage.saveLastHash rejected: the snapshot is written, the fingerprint
\* and the registry entry are not.
SnapshotLastFailed(s) ==
    /\ procs[s].pc = "sn_last"
    /\ procs' = WithProc(s, Caught(procs[s]))
    /\ log' = CaughtLog(procs[s], "saveLastHash")
    /\ UNCHANGED <<actionCount, browser, workspaceIndex, windowBindings, settings, now, timers,
                   menuIds, store, nextWsId>>

\* Storage.saveWorkspaceIndex rejected: snapshot, fingerprint and the
\* in-memory registry entry are updated, the stored registry is not.
SnapshotDoneFailed(s) ==
    /\ procs[s].pc = "sn_index"
    /\ procs' = WithProc(s, Caught(procs[s]))
    /\ log' = CaughtLog(procs[s], "saveWorkspaceIndex")
    /\ UNCHANGED <<actionCount, browser, workspaceIndex, windowBindings, settings, now, timers,
                   menuIds, store, nextWsId>>

\* ---------------------------------------------------- createWorkspace
\* updateContextMenu(): one menu item per registry entry.
updateContextMenu(index) == IndexIds(index)

\* getDefaultWorkspaceName(workspaceIndex), for a workspace created unnamed.
DefaultName == "Workspace"

\* The workspace object createWorkspace builds at time `at`.
newWorkspace(id, tabCount, at) ==
    [id |-> id, name |-> DefaultName, pinned |-> FALSE, updatedAt |-> at,
     tabCount |-> tabCount]

\* createWorkspace(data) is called.  From a window it awaits tabs.query;
\* otherwise it pushes the workspace with the default tab and awaits
\* saveWorkspaceIndex and the first saveWorkspaceTabs.
CreateWorkspace(fromCurrentWindow, windowId, s) ==
    /\ FreeSlot(s, CallSlots)
    /\ actionCount < MaxActions
    /\ actionCount' = actionCount + 1
    /\ nextWsId <= MaxWorkspaces
    /\ windowId \in liveWindows \cup {Undefined}
    /\ nextWsId' = nextWsId + 1
    /\ IF fromCurrentWindow /\ windowId # Undefined
       THEN /\ procs' = WithProc(s, [Idle EXCEPT !.pc = "cw_query",
                                                 !.workspaceId = nextWsId,
                                                 !.windowId = windowId,
                                                 !.at = now,
                                                 !.solo = TRUE,
                                                 !.pre = PreState])
            /\ UNCHANGED workspaceIndex
       ELSE /\ procs' = WithProc(s, [Idle EXCEPT !.pc = "cw_tabs1",
                                                 !.workspaceId = nextWsId,
                                                 !.tabs = <<DefaultDescriptor>>,
                                                 !.at = now,
                                                 !.solo = TRUE,
                                                 !.pre = PreState])
            /\ workspaceIndex' = Append(workspaceIndex, newWorkspace(nextWsId, 1, now))
    /\ log' = NoLog
    /\ UNCHANGED <<browser, windowBindings, settings, now, timers, menuIds, store>>

\* tabs.query resolved: encode the window's tabs, bind the window; await
\* saveWindowBindings and updateWindowIndicators.
CreateBind(s) ==
    /\ procs[s].pc = "cw_query"
    /\ windowBindings' =
           [windowBindings EXCEPT ![procs[s].windowId] = procs[s].workspaceId]
    /\ procs' = WithProc(s, [procs[s] EXCEPT
           !.pc = "cw_bound",
           !.tabs = captureDescriptors(tabsQuery(procs[s].windowId))])
    /\ log' = NoLog
    /\ UNCHANGED <<actionCount, browser, workspaceIndex, settings, now, timers, menuIds, store,
                   nextWsId>>

\* The indicators are updated: push the workspace; await saveWorkspaceIndex
\* and the first saveWorkspaceTabs.
CreatePush(s) ==
    /\ procs[s].pc = "cw_bound"
    /\ workspaceIndex' = Append(workspaceIndex,
           newWorkspace(procs[s].workspaceId, Len(procs[s].tabs), procs[s].at))
    /\ procs' = WithProc(s, [procs[s] EXCEPT !.pc = "cw_tabs1"])
    /\ log' = NoLog
    /\ UNCHANGED <<actionCount, browser, windowBindings, settings, now, timers, menuIds, store,
                   nextWsId>>

\* The first saveWorkspaceTabs(id, tabs, 1) resolved; await the second.
CreateTabs1(s) ==
    /\ procs[s].pc = "cw_tabs1"
    /\ store' = saveWorkspaceTabs(store, procs[s].workspaceId, procs[s].tabs, 1)
    /\ procs' = WithProc(s, [procs[s] EXCEPT !.pc = "cw_tabs2"])
    /\ log' = WriteLog("create", procs[s], 1, FALSE)
    /\ UNCHANGED <<actionCount, browser, workspaceIndex, windowBindings, settings, now, timers,
                   menuIds, nextWsId>>

\* The second saveWorkspaceTabs(id, tabs, 1) resolved: updateContextMenu,
\* return {workspace}.
CreateTabs2(s) ==
    /\ procs[s].pc = "cw_tabs2"
    /\ store' = saveWorkspaceTabs(store, procs[s].workspaceId, procs[s].tabs, 1)
    /\ menuIds' = updateContextMenu(workspaceIndex)
    /\ procs' = WithProc(s, Idle)
    /\ log' = WriteLog("create", procs[s], 1, TRUE)
    /\ UNCHANGED <<actionCount, browser, workspaceIndex, windowBindings, settings, now, timers,
                   nextWsId>>

\* ------------------------------------------------------ openWorkspace
\* tabs.map(t => t.u).filter(url => url && !shouldExcludeUrl(url)), with
\* about:newtab when nothing is left.
NotExcluded(d) == ~shouldExcludeUrl(d.u)
openUrls(tabs) ==
    LET kept == SelectSeq(tabs, NotExcluded)
    IN IF kept = <<>> THEN <<UrlNewTab>> ELSE [i \in 1..Len(kept) |-> kept[i].u]

\* The processes that will still create a window.
Opening == {s \in Slots : procs[s].pc \in {"ow_focus", "ow_tabs", "ow_create"}}

\* openWorkspace(workspaceId) is called: not found; or focus the window the
\* workspace is bound to; or read its tabs.
OpenWorkspace(workspaceId, s) ==
    /\ FreeSlot(s, CallSlots)
    /\ actionCount < MaxActions
    /\ actionCount' = actionCount + 1
    /\ nextWindowId + Cardinality(Opening) <= MaxWindowId
    /\ IF findIndex(workspaceIndex, workspaceId) = Undefined
       THEN /\ procs' = Disturbed
            /\ log' = ReturnLog("openWorkspace", NotFound(workspaceId),
                                "Workspace not found")
       ELSE /\ LET existingWindowId == findWindow(windowBindings, workspaceId)
               IN procs' = WithProc(s, [Idle EXCEPT
                      !.pc = IF existingWindowId # Undefined
                                /\ settings.focusExistingWindow
                             THEN "ow_focus" ELSE "ow_tabs",
                      !.workspaceId = workspaceId,
                      !.windowId = existingWindowId])
            /\ log' = NoLog
    /\ UNCHANGED <<browser, workspaceIndex, windowBindings, settings, now, timers,
                   menuIds, store, nextWsId>>

\* windows.update(existingWindowId, {focused}) settled: return the window,
\* or, the window being gone, go on to open a new one.
OpenFocus(s) ==
    /\ procs[s].pc = "ow_focus"
    /\ IF procs[s].windowId \in liveWindows
       THEN /\ procs' = WithProc(s, Idle)
            /\ log' = ReturnLog("openWorkspace", procs[s], "focused")
       ELSE /\ procs' = WithProc(s, [procs[s] EXCEPT !.pc = "ow_tabs"])
            /\ log' = NoLog
    /\ UNCHANGED <<actionCount, browser, workspaceIndex, windowBindings, settings, now, timers,
                   menuIds, store, nextWsId>>

\* getWorkspaceTabs resolved; await windows.create({url: urls[0]}).
OpenTabs(s) ==
    /\ procs[s].pc = "ow_tabs"
    /\ procs' = WithProc(s, [procs[s] EXCEPT
           !.pc = "ow_create",
           !.tabs = getWorkspaceTabs(store, procs[s].workspaceId)])
    /\ log' = NoLog
    /\ UNCHANGED <<actionCount, browser, workspaceIndex, windowBindings, settings, now, timers,
                   menuIds, store, nextWsId>>

\* windows.create resolved: a new window with the first URL; await
\* tabs.create for the remaining URLs, or tabs.query when there is none.
OpenCreate(s) ==
    /\ procs[s].pc = "ow_create"
    /\ LET urls == openUrls(procs[s].tabs)
       IN /\ liveWindows' = liveWindows \cup {nextWindowId}
          /\ windowTabs' = [windowTabs EXCEPT ![nextWindowId] =
                 <<[id |-> nextTabId, u |-> urls[1], p |-> FALSE]>>]
          /\ procs' = WithProc(s, [procs[s] EXCEPT
                 !.pc = IF Len(urls) > 1 THEN "ow_more" ELSE "ow_query",
                 !.windowId = nextWindowId])
    /\ nextWindowId' = nextWindowId + 1
    /\ nextTabId' = nextTabId + 1
    /\ log' = NoLog
    /\ UNCHANGED <<actionCount, workspaceIndex, windowBindings, settings, now, timers, menuIds,
                   store, nextWsId>>

\* tabs.create for the remaining URLs settled: the tabs are appended, or the
\* window is gone and openWorkspace throws.
OpenMore(s) ==
    /\ procs[s].pc = "ow_more"
    /\ LET urls == openUrls(procs[s].tabs)
           w == procs[s].windowId
       IN IF w \in liveWindows
          THEN /\ windowTabs' = [windowTabs EXCEPT ![w] = @ \o
                      [i \in 1..(Len(urls) - 1) |->
                          [id |-> nextTabId + i - 1, u |-> urls[i + 1], p |-> FALSE]]]
               /\ nextTabId' = nextTabId + Len(urls) - 1
               /\ procs' = WithProc(s, [procs[s] EXCEPT !.pc = "ow_query"])
               /\ log' = NoLog
          ELSE /\ procs' = WithProc(s, Idle)
               /\ log' = ReturnLog("openWorkspace", procs[s], "threw")
               /\ UNCHANGED <<windowTabs, nextTabId>>
    /\ UNCHANGED <<actionCount, liveWindows, nextWindowId, workspaceIndex, windowBindings,
                   settings, now, timers, menuIds, store, nextWsId>>

\* The ids of the queried tabs whose stored descriptor, by position, is pinned.
tabsToPin(windowTabsNow, tabs) ==
    LET n == IF Len(windowTabsNow) < Len(tabs) THEN Len(windowTabsNow) ELSE Len(tabs)
        at == SelectSeq([i \in 1..n |-> i], LAMBDA i : tabs[i].p)
    IN [k \in 1..Len(at) |-> windowTabsNow[at[k]].id]

InSeq(x, seq) == \E i \in 1..Len(seq) : seq[i] = x

\* The browser keeps pinned tabs in front.
PinnedTab(tab) == tab.p
UnpinnedTab(tab) == ~tab.p
pinTabs(tabs, ids) ==
    LET marked == [i \in 1..Len(tabs) |->
                      IF InSeq(tabs[i].id, ids) THEN [tabs[i] EXCEPT !.p = TRUE]
                      ELSE tabs[i]]
    IN SelectSeq(marked, PinnedTab) \o SelectSeq(marked, UnpinnedTab)

\* tabs.query resolved: with nothing to pin, bind the new window and await
\* saveWindowBindings; else await tabs.update({pinned}).
OpenQuery(s) ==
    /\ procs[s].pc = "ow_query"
    /\ LET ids == tabsToPin(tabsQuery(procs[s].windowId), procs[s].tabs)
       IN IF ids = <<>>
          THEN /\ windowBindings' = [windowBindings EXCEPT
                      ![procs[s].windowId] = procs[s].workspaceId]
               /\ procs' = WithProc(s, [procs[s] EXCEPT !.pc = "ow_bound"])
          ELSE /\ procs' = WithProc(s, [procs[s] EXCEPT
                      !.pc = "ow_pin", !.entries = ids])
               /\ UNCHANGED windowBindings
    /\ log' = NoLog
    /\ UNCHANGED <<actionCount, browser, workspaceIndex, settings, now, timers, menuIds, store,
                   nextWsId>>

\* tabs.update({pinned}) settled for the tabs to pin: bind the new window
\* and await saveWindowBindings; or a tab is gone and openWorkspace throws.
OpenPin(s) ==
    /\ procs[s].pc = "ow_pin"
    /\ LET w == procs[s].windowId
           here == IF w \in liveWindows
                   THEN {windowTabs[w][i].id : i \in 1..Len(windowTabs[w])}
                   ELSE {}
           ids == procs[s].entries
       IN IF \A k \in 1..Len(ids) : ids[k] \in here
          THEN /\ windowTabs' = [windowTabs EXCEPT ![w] = pinTabs(@, ids)]
               /\ windowBindings' = [windowBindings EXCEPT ![w] = procs[s].workspaceId]
               /\ procs' = WithProc(s, [procs[s] EXCEPT
                      !.pc = "ow_bound", !.entries = <<>>])
               /\ log' = NoLog
          ELSE /\ procs' = WithProc(s, Idle)
               /\ log' = ReturnLog("openWorkspace", procs[s], "threw")
               /\ UNCHANGED <<windowTabs, windowBindings>>
    /\ UNCHANGED <<actionCount, liveWindows, nextWindowId, nextTabId, workspaceIndex,
                   settings, now, timers, menuIds, store, nextWsId>>

\* saveWindowBindings and updateWindowIndicators resolved: return {windowId}.
OpenDone(s) ==
    /\ procs[s].pc = "ow_bound"
    /\ procs' = WithProc(s, Idle)
    /\ log' = ReturnLog("openWorkspace", procs[s], "opened")
    /\ UNCHANGED <<actionCount, browser, workspaceIndex, windowBindings, settings, now, timers,
                   menuIds, store, nextWsId>>

\* ------------------------------------------------- moveTabToWorkspace
TabIdsIn(w) == {windowTabs[w][i].id : i \in 1..Len(windowTabs[w])}

\* The open window that holds the tab, if any.
WindowOfTab(tabId) ==
    IF \E w \in liveWindows : tabId \in TabIdsIn(w)
    THEN CHOOSE w \in liveWindows : tabId \in TabIdsIn(w)
    ELSE Undefined

PositionOfTab(w, tabId) ==
    CHOOSE i \in 1..Len(windowTabs[w]) : windowTabs[w][i].id = tabId

\* A window whose last tab left closes, and windows.onRemoved unbinds it.
ClosedByEmptying(tabsAfter) == {w \in liveWindows : tabsAfter[w] = <<>>}

RECURSIVE unbindAll(_, _)
unbindAll(bindings, windows) ==
    IF windows = {} THEN bindings
    ELSE LET w == Min(windows)
         IN unbindAll(onWindowRemoved(bindings, w), windows \ {w})

\* The "Move to Workspace" menu item of targetWorkspaceId is clicked on a
\* tab: with the target bound, await tabs.move into its window; otherwise
\* await Storage.getWorkspaceTabs.
MoveTabToWorkspace(w, i, targetWorkspaceId, s) ==
    /\ FreeSlot(s, CallSlots)
    /\ actionCount < MaxActions
    /\ actionCount' = actionCount + 1
    /\ w \in liveWindows
    /\ i \in 1..Len(windowTabs[w])
    /\ targetWorkspaceId \in menuIds
    /\ LET targetWindowId == findWindow(windowBindings, targetWorkspaceId)
       IN procs' = WithProc(s, [Idle EXCEPT
              !.pc = IF targetWindowId # Undefined THEN "mv_move" ELSE "mv_tabs",
              !.workspaceId = targetWorkspaceId,
              !.windowId = targetWindowId,
              !.tab = [id |-> windowTabs[w][i].id, u |-> windowTabs[w][i].u,
                       p |-> windowTabs[w][i].p, windowId |-> w],
              !.solo = TRUE,
              !.pre = PreState])
    /\ log' = NoLog
    /\ UNCHANGED <<browser, workspaceIndex, windowBindings, settings, now, timers,
                   menuIds, store, nextWsId>>

\* tabs.move(tab.id, {windowId: targetWindowId, index: -1}) settled: the tab
\* is at the end of the target window (tabs.onDetached and tabs.onAttached
\* are delivered when it changed window), or the call was rejected because
\* the window or the tab is gone, and moveTabToWorkspace throws.
MoveToWindow(s) ==
    /\ procs[s].pc = "mv_move"
    /\ LET target == procs[s].windowId
           source == WindowOfTab(procs[s].tab.id)
       IN IF target \in liveWindows /\ source # Undefined
          THEN LET at == PositionOfTab(source, procs[s].tab.id)
                   tab == windowTabs[source][at]
                   tabsAfter ==
                       IF source = target
                       THEN [windowTabs EXCEPT ![source] = Append(RemoveAt(@, at), tab)]
                       ELSE [windowTabs EXCEPT
                                ![source] = RemoveAt(@, at),
                                ![target] = Append(@, [tab EXCEPT !.p = FALSE])]
                   closed == ClosedByEmptying(tabsAfter)
               IN /\ windowTabs' = tabsAfter
                  /\ liveWindows' = liveWindows \ closed
                  /\ windowBindings' = unbindAll(windowBindings, closed)
                  /\ IF source = target
                     THEN UNCHANGED timers
                     ELSE SetTimers(handleTabChange(
                              handleTabChange(TimerState, windowBindings,
                                  ListenerInfo("detached", tab.id, source)),
                              windowBindings,
                              ListenerInfo("attached", tab.id, target)))
                  /\ log' = ReturnLog("moveTabToWorkspace", procs[s], "moved")
          ELSE /\ log' = ReturnLog("moveTabToWorkspace", procs[s], "threw")
               /\ UNCHANGED <<windowTabs, liveWindows, windowBindings, timers>>
    /\ procs' = WithProc(s, Idle)
    /\ UNCHANGED <<actionCount, nextWindowId, nextTabId, workspaceIndex, settings, now, menuIds,
                   store, nextWsId>>

\* getWorkspaceTabs resolved: push the tab's descriptor; await
\* Storage.getWorkspaceVersion.
MoveTabs(s) ==
    /\ procs[s].pc = "mv_tabs"
    /\ procs' = WithProc(s, [procs[s] EXCEPT
           !.pc = "mv_version",
           !.tabs = Append(getWorkspaceTabs(store, procs[s].workspaceId),
                           createTabDescriptor(procs[s].tab))])
    /\ log' = NoLog
    /\ UNCHANGED <<actionCount, browser, workspaceIndex, windowBindings, settings, now, timers,
                   menuIds, store, nextWsId>>

\* getWorkspaceVersion resolved; await saveWorkspaceTabs(tabs, version + 1).
MoveVersion(s) ==
    /\ procs[s].pc = "mv_version"
    /\ procs' = WithProc(s, [procs[s] EXCEPT
           !.pc = "mv_write",
           !.version = getWorkspaceVersion(store, procs[s].workspaceId) + 1])
    /\ log' = NoLog
    /\ UNCHANGED <<actionCount, browser, workspaceIndex, windowBindings, settings, now, timers,
                   menuIds, store, nextWsId>>

\* saveWorkspaceTabs resolved (the snapshot is written); await tabs.remove.
MoveWrite(s) ==
    /\ procs[s].pc = "mv_write"
    /\ store' = saveWorkspaceTabs(store, procs[s].workspaceId, procs[s].tabs,
                                  procs[s].version)
    /\ procs' = WithProc(s, [procs[s] EXCEPT !.pc = "mv_remove"])
    /\ log' = WriteLog("move", procs[s], procs[s].version, FALSE)
    /\ UNCHANGED <<actionCount, browser, workspaceIndex, windowBindings, settings, now, timers,
                   menuIds, nextWsId>>

\* tabs.remove(tab.id) settled: the tab is closed (tabs.onRemoved ->
\* handleTabChange(tabId, removeInfo)) and moveTabToWorkspace returns, or the
\* tab is gone and it throws.
MoveRemove(s) ==
    /\ procs[s].pc = "mv_remove"
    /\ LET source == WindowOfTab(procs[s].tab.id)
       IN IF source # Undefined
          THEN LET tabsAfter == [windowTabs EXCEPT
                       ![source] = RemoveAt(@, PositionOfTab(source, procs[s].tab.id))]
                   closed == ClosedByEmptying(tabsAfter)
               IN /\ windowTabs' = tabsAfter
                  /\ liveWindows' = liveWindows \ closed
                  /\ windowBindings' = unbindAll(windowBindings, closed)
                  /\ SetTimers(handleTabChange(TimerState, windowBindings,
                         ListenerInfo("removed", procs[s].tab.id, source)))
                  /\ log' = ReturnLog("moveTabToWorkspace", procs[s], "appended")
          ELSE /\ log' = ReturnLog("moveTabToWorkspace", procs[s], "threw")
               /\ UNCHANGED <<windowTabs, liveWindows, windowBindings, timers>>
    /\ procs' = WithProc(s, Idle)
    /\ UNCHANGED <<actionCount, nextWindowId, nextTabId, workspaceIndex, settings, now, menuIds,
                   store, nextWsId>>

\* ---------------------------------------------------- deleteWorkspace
\* workspaceIndex.splice(index, 1)
splice(index, i) == RemoveAt(index, i)

\* deleteWorkspace(workspaceId) is called: not found; or the entry is
\* spliced out; await saveWorkspaceIndex (twice) and deleteWorkspaceData.
DeleteWorkspace(workspaceId, s) ==
    /\ FreeSlot(s, CallSlots)
    /\ actionCount < MaxActions
    /\ actionCount' = actionCount + 1
    /\ IF findIndex(workspaceIndex, workspaceId) = Undefined
       THEN /\ procs' = Disturbed
            /\ log' = ReturnLog("deleteWorkspace", NotFound(workspaceId),
                                "Workspace not found")
            /\ UNCHANGED workspaceIndex
       ELSE /\ workspaceIndex' =
                   splice(workspaceIndex, findIndex(workspaceIndex, workspaceId))
            /\ procs' = WithProc(s, [Idle EXCEPT
                   !.pc = "dl_data",
                   !.workspaceId = workspaceId,
                   !.solo = TRUE,
                   !.pre = PreState])
            /\ log' = NoLog
    /\ UNCHANGED <<browser, windowBindings, settings, now, timers, menuIds, store,
                   nextWsId>>

\* A faulty loop turn, for comparison: the listed binding is left in place.
deleteBindingKept(bindings, entries) == bindings

\* One turn of the loop over Object.entries(windowBindings) as they were
\* when the loop began: the binding of the next listed window is deleted
\* and updateWindowIndicators awaited; after the last, saveWindowBindings
\* is awaited too.
deleteBinding(bindings, entries) ==
    IF entries = <<>> THEN bindings
    ELSE [bindings EXCEPT ![Head(entries)] = Undefined]

\* deleteWorkspaceData resolved (the stored snapshot is gone):
\* updateContextMenu, then the loop over the bindings begins.
DeleteData(s) ==
    /\ procs[s].pc = "dl_data"
    /\ store' = deleteWorkspaceData(store, procs[s].workspaceId)
    /\ menuIds' = updateContextMenu(workspaceIndex)
    /\ LET entries == boundWindows(windowBindings, procs[s].workspaceId)
       IN /\ windowBindings' = deleteBinding(windowBindings, entries)
          /\ procs' = WithProc(s, [procs[s] EXCEPT
                 !.pc = IF Len(entries) > 1 THEN "dl_loop" ELSE "dl_save",
                 !.entries = IF entries = <<>> THEN <<>> ELSE Tail(entries)])
    /\ log' = NoLog
    /\ UNCHANGED <<actionCount, browser, workspaceIndex, settings, now, timers, nextWsId>>

\* updateWindowIndicators resolved: the next turn of the loop.
DeleteLoop(s) ==
    /\ procs[s].pc = "dl_loop"
    /\ windowBindings' = deleteBinding(windowBindings, procs[s].entries)
    /\ procs' = WithProc(s, [procs[s] EXCEPT
           !.pc = IF Len(procs[s].entries) > 1 THEN "dl_loop" ELSE "dl_save",
           !.entries = Tail(procs[s].entries)])
    /\ log' = NoLog
    /\ UNCHANGED <<actionCount, browser, workspaceIndex, settings, now, timers, menuIds, store,
                   nextWsId>>

\* saveWindowBindings resolved: return {success: true}.
DeleteDone(s) ==
    /\ procs[s].pc = "dl_save"
    /\ procs' = WithProc(s, Idle)
    /\ log' = ReturnLog("deleteWorkspace", procs[s], "success")
    /\ UNCHANGED <<actionCount, browser, workspaceIndex, windowBindings, settings, now, timers,
                   menuIds, store, nextWsId>>

\* ----------------------------------------------- cleanupStaleBindings
\* The extension starts: settings, registry and bindings are loaded (any
\* binding table may have been persisted by an earlier session), some of the
\* windows are open, and init() awaits browser.windows.getAll() in
\* cleanupStaleBindings.  No listener is installed yet.
InitLoad ==
    /\ liveWindows \in SUBSET {1, 2}
    /\ windowTabs = [w \in WindowIds |-> IF w \in liveWindows THEN InitTabs[w] ELSE <<>>]
    /\ nextWindowId = 3
    /\ nextTabId = 4
    /\ workspaceIndex = <<>>
    /\ windowBindings \in [WindowIds -> WsIds \cup {Undefined}]
    /\ settings \in [autoSave : BOOLEAN, includePinnedTabs : BOOLEAN,
                      focusExistingWindow : BOOLEAN]
    /\ now = 0
    /\ saveTimers = [w \in WsIds |-> Undefined]
    /\ pendingTimers = {}
    /\ menuIds = {}
    /\ store = [w \in WsIds |-> NoEntry]
    /\ nextWsId = 1
    /\ procs = [s \in Slots |->
                   IF s = 1
                   THEN [Idle EXCEPT
                            !.pc = "cl_getAll",
                            !.solo = TRUE,
                            !.pre = [index |-> <<>>, bindings |-> windowBindings,
                                     store |-> store, live |-> liveWindows]]
                   ELSE Idle]
    /\ actionCount = 0
    /\ log = NoLog

\* newBindings: the entries of windowBindings whose key is a valid window id.
newBindings(bindings, validWindowIds) ==
    [w \in WindowIds |-> IF w \in validWindowIds THEN bindings[w] ELSE Undefined]

\* browser.windows.getAll() resolved: windowBindings = newBindings; await
\* Storage.saveWindowBindings.
CleanupGetAll(s) ==
    /\ procs[s].pc = "cl_getAll"
    /\ windowBindings' = newBindings(windowBindings, liveWindows)
    /\ procs' = WithProc(s, [procs[s] EXCEPT !.pc = "cl_save"])
    /\ log' = NoLog
    /\ UNCHANGED <<actionCount, browser, workspaceIndex, settings, now, timers, menuIds,
                   store, nextWsId>>

\* saveWindowBindings resolved: cleanupStaleBindings returns.
CleanupSaved(s) ==
    /\ procs[s].pc = "cl_save"
    /\ procs' = WithProc(s, Idle)
    /\ log' = ReturnLog("cleanupStaleBindings", procs[s], "done")
    /\ UNCHANGED <<actionCount, browser, workspaceIndex, windowBindings, settings, now,
                   timers, menuIds, store, nextWsId>>

\* The user closes a window while init() is still in cleanupStaleBindings:
\* setupWindowListeners has not run, so no listener sees it.
WindowRemovedEarly(w) ==
    /\ \E s \in Slots : procs[s].pc \in {"cl_getAll", "cl_save"}
    /\ w \in liveWindows
    /\ liveWindows' = liveWindows \ {w}
    /\ windowTabs' = [windowTabs EXCEPT ![w] = <<>>]
    /\ procs' = Disturbed
    /\ log' = [kind |-> "windowRemoved", windowId |-> w]
    /\ UNCHANGED <<actionCount, nextWindowId, nextTabId, workspaceIndex, windowBindings,
                   settings, now, timers, menuIds, store, nextWsId>>

\* ---------------------------------- renameWorkspace, toggleWorkspacePin
\* The names a workspace is renamed to.
Names == {"Work", "Home"}

\* A faulty rename, for comparison: the entry keeps its name.
renameEntryKept(index, i, name, at) == [index EXCEPT ![i].updatedAt = at]

\* workspace.name = name; workspace.updatedAt = Date.now()
renameEntry(index, i, name, at) ==
    [index EXCEPT ![i].name = name, ![i].updatedAt = at]

\* renameWorkspace(workspaceId, name) is called: not found; or the entry is
\* renamed in memory and Storage.saveWorkspaceIndex awaited.
RenameWorkspace(workspaceId, name, s) ==
    /\ FreeSlot(s, CallSlots)
    /\ actionCount < MaxActions
    /\ actionCount' = actionCount + 1
    /\ IF findIndex(workspaceIndex, workspaceId) = Undefined
       THEN /\ procs' = Disturbed
            /\ log' = ReturnLog("renameWorkspace", NotFound(workspaceId),
                                "Workspace not found")
            /\ UNCHANGED workspaceIndex
       ELSE /\ workspaceIndex' = renameEntry(workspaceIndex,
                   findIndex(workspaceIndex, workspaceId), name, now)
            /\ procs' = WithProc(s, [Idle EXCEPT
                   !.pc = "rn_save",
                   !.workspaceId = workspaceId,
                   !.name = name,
                   !.at = now,
                   !.solo = TRUE,
                   !.pre = PreState])
            /\ log' = NoLog
    /\ UNCHANGED <<browser, windowBindings, settings, now, timers, menuIds, store,
                   nextWsId>>

\* saveWorkspaceIndex resolved: updateContextMenu, refreshAllWindowIndicators,
\* return {success: true}.
RenameSaved(s) ==
    /\ procs[s].pc = "rn_save"
    /\ menuIds' = updateContextMenu(workspaceIndex)
    /\ procs' = WithProc(s, Idle)
    /\ log' = ReturnLog("renameWorkspace", procs[s], "success")
    /\ UNCHANGED <<actionCount, browser, workspaceIndex, windowBindings, settings, now,
                   timers, store, nextWsId>>

\* saveWorkspaceIndex rejected (the write failed): renameWorkspace throws.
RenameFailed(s) ==
    /\ procs[s].pc = "rn_save"
    /\ procs' = WithProc(s, Idle)
    /\ log' = ReturnLog("renameWorkspace", procs[s], "saveFailed")
    /\ UNCHANGED <<actionCount, browser, workspaceIndex, windowBindings, settings, now,
                   timers, menuIds, store, nextWsId>>

\* workspace.pinned = !workspace.pinned
togglePinned(index, i) == [index EXCEPT ![i].pinned = ~@]

\* toggleWorkspacePin(workspaceId) is called: not found; or the entry's
\* pinned flag is flipped in memory and Storage.saveWorkspaceIndex awaited.
ToggleWorkspacePin(workspaceId, s) ==
    /\ FreeSlot(s, CallSlots)
    /\ actionCount < MaxActions
    /\ actionCount' = actionCount + 1
    /\ IF findIndex(workspaceIndex, workspaceId) = Undefined
       THEN /\ procs' = Disturbed
            /\ log' = ReturnLog("toggleWorkspacePin", NotFound(workspaceId),
                                "Workspace not found")
            /\ UNCHANGED workspaceIndex
       ELSE /\ workspaceIndex' = togglePinned(workspaceIndex,
                   findIndex(workspaceIndex, workspaceId))
            /\ procs' = WithProc(s, [Idle EXCEPT
                   !.pc = "pn_save",
                   !.workspaceId = workspaceId,
                   !.solo = TRUE,
                   !.pre = PreState])
            /\ log' = NoLog
    /\ UNCHANGED <<browser, windowBindings, settings, now, timers, menuIds, store,
                   nextWsId>>

\* saveWorkspaceIndex resolved: return {pinned}.
PinSaved(s) ==
    /\ procs[s].pc = "pn_save"
    /\ procs' = WithProc(s, Idle)
    /\ log' = ReturnLog("toggleWorkspacePin", procs[s], "pinned")
    /\ UNCHANGED <<actionCount, browser, workspaceIndex, windowBindings, settings, now,
                   timers, menuIds, store, nextWsId>>

\* saveWorkspaceIndex rejected: toggleWorkspacePin throws.
PinFailed(s) ==
    /\ procs[s].pc = "pn_save"
    /\ procs' = WithProc(s, Idle)
    /\ log' = ReturnLog("toggleWorkspacePin", procs[s], "saveFailed")
    /\ UNCHANGED <<actionCount, browser, workspaceIndex, windowBindings, settings, now,
                   timers, menuIds, store, nextWsId>>

\* ------------------------------------------- a bound, captured workspace
\* A profile in which workspace 1 was created from window b and captured
\* once: registered, bound to b, its snapshot and fingerprint those of b's
\* eligible tabs.
InitBound ==
    /\ liveWindows = {1, 2}
    /\ windowTabs = InitTabs
    /\ nextWindowId = 3
    /\ nextTabId = 4
    /\ settings \in [autoSave : BOOLEAN, includePinnedTabs : BOOLEAN,
                      focusExistingWindow : BOOLEAN]
    /\ now = 0
    /\ \E b \in {1, 2} :
          /\ windowBindings = [w \in WindowIds |-> IF w = b THEN 1 ELSE Undefined]
          /\ workspaceIndex =
                 <<newWorkspace(1, Len(captureDescriptors(InitTabs[b])), 0)>>
          /\ store = [w \in WsIds |->
                 IF w = 1
                 THEN [present |-> TRUE,
                       tabs |-> captureDescriptors(InitTabs[b]),
                       version |-> 2,
                       hash |-> quickHash(captureDescriptors(InitTabs[b]))]
                 ELSE NoEntry]
    /\ saveTimers = [w \in WsIds |-> Undefined]
    /\ pendingTimers = {}
    /\ menuIds = {1}
    /\ nextWsId = 2
    /\ procs = [s \in Slots |-> Idle]
    /\ actionCount = 0
    /\ log = NoLog

\* ------------------------------------------------ setupStorageListener
\* The registry values another device can have written to the synchronized
\* partition, and the removal of the key (no newValue).
RemoteEntry(id) == [newWorkspace(id, 1, 0) EXCEPT !.name = "Home"]
RemoteIndexes ==
    {<<>>, <<RemoteEntry(1)>>, <<RemoteEntry(2)>>, <<RemoteEntry(2), RemoteEntry(1)>>}
IndexChanges ==
    {[present |-> TRUE, newValue |-> v] : v \in RemoteIndexes}
        \cup {[present |-> FALSE, newValue |-> <<>>]}

\* A faulty listener, for comparison: the incoming entries are added to the
\* in-memory ones.
newIndexMerged(change) ==
    workspaceIndex \o (IF change.present THEN change.newValue ELSE <<>>)

\* changes[STORAGE_KEYS.WORKSPACE_INDEX].newValue || []
newIndex(change) == IF change.present THEN change.newValue ELSE <<>>

\* storage.onChanged fires for the 'sync' area with the registry key among
\* the changes: the registry is replaced, updateContextMenu and
\* refreshAllWindowIndicators are called and not awaited.
SyncIndexChanged(change) ==
    /\ actionCount < MaxActions
    /\ actionCount' = actionCount + 1
    /\ workspaceIndex' = newIndex(change)
    /\ menuIds' = updateContextMenu(workspaceIndex')
    /\ procs' = Disturbed
    /\ log' = [kind |-> "sync", change |-> change, before |-> workspaceIndex,
               calls |-> {"updateContextMenu", "refreshAllWindowIndicators"}]
    /\ UNCHANGED <<browser, windowBindings, settings, now, timers, store, nextWsId>>

\* ---------------------------------------------------------------- time
\* A millisecond passes.
Tick ==
    /\ now < MaxClock
    /\ now' = now + 1
    /\ log' = NoLog
    /\ UNCHANGED <<actionCount, browser, workspaceIndex, windowBindings, settings,
                   timers, menuIds, store, nextWsId, procs>>

\* ---------------------------------------------------------------- Next
TabEvents ==
    \/ \E w \in WindowIds : TabCreated(w)
    \/ \E w \in WindowIds : \E i \in DOMAIN windowTabs[w] : TabRemoved(w, i)
    \/ \E w \in WindowIds : \E i \in DOMAIN windowTabs[w] : TabMoved(w, i)
    \/ \E w \in WindowIds, u \in UserUrls : \E i \in DOMAIN windowTabs[w] :
           TabUpdated(w, i, u)
    \/ \E w \in WindowIds, t \in WindowIds : \E i \in DOMAIN windowTabs[w] :
           TabDragged(w, i, t)

WindowEvents ==
    \E w \in WindowIds : WindowRemoved(w)

Capture ==
    \/ \E t \in pendingTimers, s \in Slots : TimerFire(t, s)
    \/ \E s \in Slots : SnapshotQuery(s)
    \/ \E s \in Slots : SnapshotCompare(s)
    \/ \E s \in Slots : SnapshotVersion(s)
    \/ \E s \in Slots : SnapshotTabs(s)
    \/ \E s \in Slots : SnapshotLast(s)
    \/ \E s \in Slots : SnapshotDone(s)

Create ==
    \/ \E f \in BOOLEAN, w \in WindowIds \cup {Undefined}, s \in Slots :
           CreateWorkspace(f, w, s)
    \/ \E s \in Slots : CreateBind(s)
    \/ \E s \in Slots : CreatePush(s)
    \/ \E s \in Slots : CreateTabs1(s)
    \/ \E s \in Slots : CreateTabs2(s)

Open ==
    \/ \E id \in WsIds, s \in Slots : OpenWorkspace(id, s)
    \/ \E s \in Slots : OpenFocus(s)
    \/ \E s \in Slots : OpenTabs(s)
    \/ \E s \in Slots : OpenCreate(s)
    \/ \E s \in Slots : OpenMore(s)
    \/ \E s \in Slots : OpenQuery(s)
    \/ \E s \in Slots : OpenPin(s)
    \/ \E s \in Slots : OpenDone(s)

Move ==
    \/ \E w \in WindowIds, id \in WsIds, s \in Slots :
           \E i \in DOMAIN windowTabs[w] : MoveTabToWorkspace(w, i, id, s)
    \/ \E s \in Slots : MoveToWindow(s)
    \/ \E s \in Slots : MoveTabs(s)
    \/ \E s \in Slots : MoveVersion(s)
    \/ \E s \in Slots : MoveWrite(s)
    \/ \E s \in Slots : MoveRemove(s)

Delete ==
    \/ \E id \in WsIds, s \in Slots : DeleteWorkspace(id, s)
    \/ \E s \in Slots : DeleteData(s)
    \/ \E s \in Slots : DeleteLoop(s)
    \/ \E s \in Slots : DeleteDone(s)

Rename ==
    \/ \E id \in WsIds, name \in Names, s \in Slots : RenameWorkspace(id, name, s)
    \/ \E s \in Slots : RenameSaved(s)
    \/ \E s \in Slots : RenameFailed(s)

Pin ==
    \/ \E id \in WsIds, s \in Slots : ToggleWorkspacePin(id, s)
    \/ \E s \in Slots : PinSaved(s)
    \/ \E s \in Slots : PinFailed(s)

CaptureFails ==
    \/ \E s \in Slots : SnapshotTabsFailed(s)
    \/ \E s \in Slots : SnapshotLastFailed(s)
    \/ \E s \in Slots : SnapshotDoneFailed(s)

Sync ==
    \E change \in IndexChanges : SyncIndexChanged(change)

\* The whole program.
Next ==
    \/ TabEvents \/ WindowEvents \/ Capture \/ Create \/ Open \/ Move \/ Delete
    \/ Rename \/ Pin \/ Sync \/ CaptureFails \/ Tick
Spec == Init /\ [][Next]_vars

\* The binding lifecycle: workspaces are created, opened and deleted and
\* windows close.
NextBinding == WindowEvents \/ Create \/ Open \/ Delete
SpecBinding == Init /\ [][NextBinding]_vars

\* Auto-save: workspaces are created, tabs change, windows close, timers
\* fire and captures run.
NextSave == TabEvents \/ WindowEvents \/ Capture \/ Create
SpecSave == Init /\ [][NextSave]_vars

\* The registry: workspaces are created, opened, renamed, pinned and
\* deleted while time passes.
NextRegistry == Tick \/ Create \/ Open \/ Delete \/ Rename \/ Pin
SpecRegistry == Init /\ [][NextRegistry]_vars

\* Start-up: init() reaps the loaded bindings while windows may close.
Cleanup ==
    \/ \E s \in Slots : CleanupGetAll(s)
    \/ \E s \in Slots : CleanupSaved(s)

NextInit == Cleanup \/ \E w \in WindowIds : WindowRemovedEarly(w)
SpecInit == InitLoad /\ [][NextInit]_vars

\* Auto-save with failing storage: tabs of a bound window change, timers
\* fire, captures run and any write of a capture may be rejected.
NextRetry == TabEvents \/ Capture \/ CaptureFails
SpecRetry == InitBound /\ [][NextRetry]_vars

\* Deleting a workspace under auto-save: tabs of its window change, timers
\* fire, captures run and the workspace is deleted.  The workspace is bound
\* to one window, so the delete loop has no second turn.
NextAfterDelete ==
    \/ TabEvents
    \/ Capture
    \/ \E id \in WsIds, s \in Slots : DeleteWorkspace(id, s)
    \/ \E s \in Slots : DeleteData(s)
    \/ \E s \in Slots : DeleteDone(s)
SpecAfterDelete == InitBound /\ [][NextAfterDelete]_vars

\* Synchronization: another device replaces the registry while workspaces
\* are created, opened and deleted and windows close.
NextSync == Sync \/ WindowEvents \/ Create \/ Open \/ Delete
SpecSync == Init /\ [][NextSync]_vars

\* The "Move to Workspace" menu: workspaces are created, tabs are moved
\* to them and windows close.
NextMove == WindowEvents \/ Create \/ Move
SpecMove == Init /\ [][NextMove]_vars

\* ------------------------------------------------------------ properties
\* C1: no two live windows are bound to the same workspace id, whatever
\* the focusExistingWindow setting, after any createWorkspace / openWorkspace
\* calls and window closes.
BindingUniqueness ==
    \A w1 \in liveWindows : \A w2 \in liveWindows :
        (w1 # w2 /\ windowBindings[w1] # Undefined)
            => windowBindings[w1] # windowBindings[w2]

\* C2: once every handler has run to completion, the binding table has no
\* key for a window that is not open, under any interleaving of create/open
\* and window-removed events.
NoStaleBinding ==
    Quiet => \A w \in WindowIds : windowBindings[w] # Undefined => w \in liveWindows

\* C3: a capture whose filtered descriptor sequence is identical to the
\* sequence stored for the workspace does not increment the stored version,
\* whichever operation wrote the stored snapshot.
UnchangedCaptureKeepsVersion ==
    (/\ log.kind = "write"
     /\ log.by = "capture"
     /\ log.before.present
     /\ log.tabs = log.before.tabs)
        => log.version = log.before.version

\* C4: every snapshot write (by createWorkspace, saveWorkspaceSnapshot or
\* moveTabToWorkspace) stores a version strictly greater than the version
\* already stored for the workspace.
VersionStrictlyIncreases ==
    log.kind = "write" => log.version > getWorkspaceVersion(
        [w \in WsIds |-> IF w = log.workspaceId THEN log.before ELSE store[w]],
        log.workspaceId)

\* C5: while no handler is in flight (so no snapshot write is in progress),
\* the stored fingerprint of every workspace that has a snapshot is the
\* fingerprint of the descriptor sequence last written for it.
FingerprintConsistent ==
    Quiet => \A ws \in WsIds :
        store[ws].present => getLastHash(store, ws) = quickHash(store[ws].tabs)

\* The workspaces of the bound windows in which the last step's tab events
\* happened.
EventWorkspaces ==
    IF log.kind = "event"
    THEN {windowBindings[e.windowId] : e \in log.events} \ {Undefined}
    ELSE {}

\* C6: with autoSave on, a burst of N >= 1 mutation events in windows bound
\* to one workspace leaves exactly one capture scheduled for it: at most one
\* timer is pending per workspace at any time, after each event of the
\* burst exactly one is pending, and when it fires none is left.
DebounceCoalesces ==
    /\ \A ws \in WsIds : Cardinality(TimersOf(pendingTimers, ws)) <= 1
    /\ settings.autoSave =>
           \A ws \in EventWorkspaces : Cardinality(TimersOf(pendingTimers, ws)) = 1
    /\ log.kind = "fire" => TimersOf(pendingTimers, log.workspaceId) = {}

\* C7: when a debounce timer of workspace W fires, the capture it starts is
\* of the window bound to W at that moment; with W bound to no window no
\* capture starts.
FireUsesCurrentBinding ==
    log.kind = "fire" => windowBindings[log.windowId] = log.workspaceId

\* C8: with autoSave on, every kind of tab mutation event (created, removed,
\* moved, URL changed, attached, detached) in a window bound to W arms the
\* debounce timer of W for that window.
EveryMutationArms ==
    (log.kind = "event" /\ settings.autoSave) =>
        \A e \in log.events :
            windowBindings[e.windowId] # Undefined =>
                \E t \in pendingTimers :
                    /\ t.workspaceId = windowBindings[e.windowId]
                    /\ t.windowId = e.windowId

\* A moveTabToWorkspace that ran alone and has just returned or thrown,
\* its target having been bound to no open window when it was called.
MovedToClosedWorkspace ==
    /\ log.kind = "return"
    /\ log.op = "moveTabToWorkspace"
    /\ log.solo
    /\ \A w \in log.pre.live : log.pre.bindings[w] # log.workspaceId

\* C9: moveTabToWorkspace to a workspace bound to no live window appends
\* exactly the moved tab's descriptor to the end of the stored sequence,
\* increments the stored version by exactly 1 and removes the tab from its
\* source window.
MoveAppendsToClosedWorkspace ==
    MovedToClosedWorkspace =>
        /\ log.result = "appended"
        /\ store[log.workspaceId].present
        /\ store[log.workspaceId].tabs =
               Append(getWorkspaceTabs(log.pre.store, log.workspaceId),
                      createTabDescriptor(log.tab))
        /\ store[log.workspaceId].version =
               getWorkspaceVersion(log.pre.store, log.workspaceId) + 1
        /\ WindowOfTab(log.tab.id) = Undefined

\* A deleteWorkspace(W) of a registered W that ran alone and has just
\* returned {success: true}.
DeletedAlone ==
    /\ log.kind = "return"
    /\ log.op = "deleteWorkspace"
    /\ log.result = "success"
    /\ log.solo

\* C10: after deleteWorkspace(W) completes for a registered W, the registry
\* has no entry W, no window is bound to W and the stored snapshot of W is
\* gone; every other registry entry, binding and snapshot is as it was.
DeleteRemovesWorkspace ==
    DeletedAlone =>
        /\ log.workspaceId \notin IndexIds(workspaceIndex)
        /\ \A w \in WindowIds : windowBindings[w] # log.workspaceId
        /\ store[log.workspaceId] = NoEntry
        /\ workspaceIndex = SelectSeq(log.pre.index, LAMBDA ws : ws.id # log.workspaceId)
        /\ \A w \in WindowIds : log.pre.bindings[w] # log.workspaceId =>
               windowBindings[w] = log.pre.bindings[w]
        /\ \A ws \in WsIds \ {log.workspaceId} : store[ws] = log.pre.store[ws]

\* C10's case: W was bound to a window and had a stored snapshot, and
\* another workspace was registered and another one bound.
DeletedBoundWorkspace ==
    /\ DeletedAlone
    /\ \E w \in WindowIds : log.pre.bindings[w] = log.workspaceId
    /\ log.pre.store[log.workspaceId].present
    /\ Len(log.pre.index) = 2
    /\ \E w \in WindowIds : log.pre.bindings[w] \notin {Undefined, log.workspaceId}

\* The descriptors of the tabs that pass the exclusion policy and, with
\* includePinnedTabs off, are not pinned, in the order of the tabs.
RECURSIVE PolicyDescriptors(_)
PolicyDescriptors(tabs) ==
    IF tabs = <<>> THEN <<>>
    ELSE LET tab == Head(tabs)
             excluded == shouldExcludeUrl(tab.u)
             filtered == tab.p /\ ~settings.includePinnedTabs
         IN (IF excluded \/ filtered THEN <<>>
             ELSE <<[u |-> tab.u, t |-> TitleOf(tab.u), p |-> tab.p]>>)
            \o PolicyDescriptors(Tail(tabs))

\* A createWorkspace from a window that ran alone and has just returned.
CreatedFromWindow ==
    /\ log.kind = "write"
    /\ log.by = "create"
    /\ log.returned
    /\ log.solo
    /\ log.windowId # Undefined

\* C11: createWorkspace from a window stores exactly the window's tabs that
\* pass the exclusion policy (and the pinned filter when includePinnedTabs
\* is off), in browser order, with version 1, and the registry entry's
\* tabCount is the number of stored descriptors.
CreateStoresEligibleTabs ==
    CreatedFromWindow =>
        LET W == log.workspaceId
            i == findIndex(workspaceIndex, W)
        IN /\ store[W].present
           /\ store[W].tabs = PolicyDescriptors(windowTabs[log.windowId])
           /\ store[W].version = 1
           /\ i # Undefined
           /\ workspaceIndex[i].tabCount = Len(store[W].tabs)

\* C11's case: the window held an excluded tab and an eligible one.
CreatedFromMixedWindow ==
    /\ CreatedFromWindow
    /\ \E k \in DOMAIN windowTabs[log.windowId] :
           shouldExcludeUrl(windowTabs[log.windowId][k].u)
    /\ store[log.workspaceId].tabs # <<>>
    /\ Len(store[log.workspaceId].tabs) < Len(windowTabs[log.windowId])

\* A renameWorkspace(W, name) of a registered W that ran alone and has just
\* returned {success: true}.
RenamedAlone ==
    /\ log.kind = "return"
    /\ log.op = "renameWorkspace"
    /\ log.result = "success"
    /\ log.solo

\* What renameWorkspace leaves alone: W's stored snapshot, version and
\* fingerprint, the other fields of W's entry, every other registry entry
\* and the binding table.
RenameFrame ==
    LET i == findIndex(log.pre.index, log.workspaceId)
    IN /\ Len(workspaceIndex) = Len(log.pre.index)
       /\ \A k \in DOMAIN workspaceIndex :
              IF k = i
              THEN /\ workspaceIndex[k].id = log.pre.index[k].id
                   /\ workspaceIndex[k].pinned = log.pre.index[k].pinned
                   /\ workspaceIndex[k].tabCount = log.pre.index[k].tabCount
              ELSE workspaceIndex[k] = log.pre.index[k]
       /\ store = log.pre.store
       /\ windowBindings = log.pre.bindings

RegistryEntryHasSnapshot ==
    \A id \in IndexIds(workspaceIndex) : store[id].present

\* The requests the message listener hands to handleMessage.
MessageOps ==
    {"createWorkspace", "openWorkspace", "deleteWorkspace", "renameWorkspace",
     "toggleWorkspacePin"}

\* C14: every request handled by the message listener is answered with its
\* payload or an {error} object, also when a storage or browser call of the
\* handler fails: no handler ends by throwing.
EveryRequestAnswered ==
    (log.kind = "return" /\ log.op \in MessageOps)
        => log.result \notin {"threw", "saveFailed"}

\* The handlers that look the workspace up in the registry first.
LookupOps ==
    {"openWorkspace", "deleteWorkspace", "renameWorkspace", "toggleWorkspacePin"}

\* One of them has just returned from a call with an id that was not in
\* the registry.
CalledWithAbsentId ==
    /\ log.kind = "return"
    /\ log.op \in LookupOps
    /\ log.solo
    /\ log.workspaceId \notin IndexIds(log.pre.index)

\* C15: openWorkspace, deleteWorkspace, renameWorkspace and
\* toggleWorkspacePin called with an id absent from the registry return
\* {error: 'Workspace not found'} and leave the registry, the binding table
\* and the snapshot store unchanged.
AbsentIdIsNotFound ==
    CalledWithAbsentId =>
        /\ log.result = "Workspace not found"
        /\ workspaceIndex = log.pre.index
        /\ windowBindings = log.pre.bindings
        /\ store = log.pre.store

\* C15's case: the id is absent while another workspace is registered,
\* bound and stored.
AbsentIdAmongOthers ==
    /\ CalledWithAbsentId
    /\ log.op = "deleteWorkspace"
    /\ workspaceIndex # <<>>
    /\ \E w \in WindowIds : windowBindings[w] # Undefined
    /\ \E id \in WsIds : store[id].present

\* C16: when the persisted registry write of a handler fails, the
\* in-memory registry after the operation equals the registry before it.
FailedWriteLeavesRegistry ==
    (log.kind = "return" /\ log.result = "saveFailed" /\ log.solo)
        => workspaceIndex = log.pre.index

\* A capture that ran alone (no tab mutation, no other handler step since
\* its timer fired) and has just written or skipped.
CapturedAlone ==
    /\ log.kind \in {"write", "skip"}
    /\ log.kind = "write" => log.by = "capture"
    /\ log.solo

\* The stored snapshot of the capture's workspace is the work of a completed
\* capture of the same tabs: the fingerprint stored with it is theirs.
FollowsCaptureOfSameTabs ==
    /\ log.pre.store[log.workspaceId].present
    /\ log.pre.store[log.workspaceId].tabs = log.tabs
    /\ getLastHash(log.pre.store, log.workspaceId)
           = quickHash(log.pre.store[log.workspaceId].tabs)

\* C17: of two captures of the same workspace and window run one after the
\* other with no tab mutation between them, following a change of the tab
\* set, the first writes the stored version + 1 and the second writes
\* nothing: one version increment in total.
SecondCaptureIsNoOp ==
    CapturedAlone =>
        /\ log.kind = "write" =>
               /\ ~FollowsCaptureOfSameTabs
               /\ log.version = getWorkspaceVersion(log.pre.store, log.workspaceId) + 1
        /\ log.kind = "skip" =>
               /\ store = log.pre.store
               /\ workspaceIndex = log.pre.index

\* C17's case: the second capture, of the tabs the first one stored at a
\* version above 1, has just skipped.
SecondCaptureSkipped ==
    /\ log.kind = "skip"
    /\ log.solo
    /\ FollowsCaptureOfSameTabs
    /\ store[log.workspaceId].version > 1
    /\ log.tabs # <<>>

\* C18: with no capture or move in progress, every registry entry's
\* tabCount is the length of the descriptor sequence stored for the
\* workspace, after any create, capture and move-tab operations.
TabCountMatchesSnapshot ==
    Quiet => \A k \in DOMAIN workspaceIndex :
        store[workspaceIndex[k].id].present =>
            workspaceIndex[k].tabCount = Len(store[workspaceIndex[k].id].tabs)

\* cleanupStaleBindings has just returned.
CleanupCompleted ==
    /\ log.kind = "return"
    /\ log.op = "cleanupStaleBindings"

\* C19: when cleanupStaleBindings completes during init, the binding table
\* holds exactly the loaded bindings of the windows live at that moment:
\* the binding of every window that is not live is dropped, that of every
\* live window is kept with its workspace id.
CleanupKeepsLiveBindings ==
    CleanupCompleted =>
        \A w \in WindowIds :
            windowBindings[w] =
                IF w \in liveWindows THEN log.pre.bindings[w] ELSE Undefined

\* Process s is awaiting windows.update(existingWindowId, {focused: true})
\* and the call settles in this step.
FocusSettles(s) ==
    /\ procs[s].pc = "ow_focus"
    /\ procs'[s].pc # "ow_focus"

\* Workspace id is bound to a window that is open.
BoundToLiveWindow(id) == \E w \in liveWindows : windowBindings[w] = id

\* C20: openWorkspace(W) with focusExistingWindow set and W bound to a live
\* window focuses that window and returns its id, creating no window and
\* adding no binding; when the focus fails because the window is gone, the
\* call goes on to read W's tabs and open a new window for W.
OpenFocusesExistingWindow ==
    [][\A s \in Slots :
          FocusSettles(s) =>
              /\ BoundToLiveWindow(procs[s].workspaceId) =>
                     /\ log'.kind = "return"
                     /\ log'.op = "openWorkspace"
                     /\ log'.result = "focused"
                     /\ log'.windowId \in liveWindows
                     /\ windowBindings[log'.windowId] = procs[s].workspaceId
                     /\ UNCHANGED <<liveWindows, nextWindowId, windowBindings>>
              /\ procs[s].windowId \notin liveWindows =>
                     /\ procs'[s].pc = "ow_tabs"
                     /\ procs'[s].workspaceId = procs[s].workspaceId]_vars

\* C21: when the synchronized partition reports a change of the registry
\* key, the in-memory registry is exactly the incoming value (empty when
\* there is no new value), nothing of the previous registry is merged in,
\* and the context menu and window indicator refreshes are started.
SyncReplacesRegistry ==
    log.kind = "sync" =>
        /\ workspaceIndex =
               (IF log.change.present THEN log.change.newValue ELSE <<>>)
        /\ menuIds = IndexIds(workspaceIndex)
        /\ log.calls = {"updateContextMenu", "refreshAllWindowIndicators"}

\* A registry holding a local workspace was replaced by a different,
\* non-empty remote one.
SyncReplacedLocalRegistry ==
    /\ log.kind = "sync"
    /\ log.before # <<>>
    /\ log.change.present
    /\ log.change.newValue # <<>>
    /\ IndexIds(log.before) \ IndexIds(log.change.newValue) # {}

\* A moveTabToWorkspace whose target was bound to a window when the menu
\* item was clicked, that ran alone and has just finished.
MovedToBoundWorkspace ==
    /\ log.kind = "return"
    /\ log.op = "moveTabToWorkspace"
    /\ log.solo
    /\ \E w \in WindowIds : log.pre.bindings[w] = log.workspaceId

\* C22: moveTabToWorkspace to a workspace bound to a window moves the tab
\* into that window and writes nothing to the snapshot store: the target's
\* stored descriptors, version and fingerprint are as before, and the tab
\* is still open in the browser.
MoveIntoBoundWindow ==
    MovedToBoundWorkspace =>
        /\ log.result = "moved"
        /\ log.windowId \in liveWindows
        /\ windowTabs[log.windowId] # <<>>
        /\ windowTabs[log.windowId][Len(windowTabs[log.windowId])].id = log.tab.id
        /\ store = log.pre.store
        /\ WindowOfTab(log.tab.id) # Undefined

\* Capture s ends in this step without a storage failure, having run alone
\* as the first capture of its workspace since one that failed, started by
\* a tab event that came after the failure, on a window that is open and
\* still bound to the workspace.
RetryCompletes(s) ==
    /\ procs[s].pc \in {"sn_hash", "sn_last", "sn_index"}
    /\ procs'[s].pc = "idle"
    /\ ~procs'[s].caught
    /\ procs[s].after
    /\ procs[s].solo
    /\ procs[s].windowId \in liveWindows
    /\ windowBindings[procs[s].windowId] = procs[s].workspaceId

\* Capture s ends in the catch block in this step.
CaptureCaught(s) ==
    /\ procs[s].pc \in {"sn_tabs", "sn_last", "sn_index"}
    /\ procs'[s].caught

\* C23: a storage failure in the write phase of a capture is caught and
\* leaves the slot free for further events; the next capture of the still
\* bound window, with working storage, ends with the stored descriptors
\* equal to the window's eligible tabs and the stored fingerprint matching
\* them.
RetryStoresWindow ==
    [][\A s \in Slots :
          /\ CaptureCaught(s) => procs'[s].pc = "idle"
          /\ RetryCompletes(s) =>
                 /\ store'[procs[s].workspaceId].present
                 /\ store'[procs[s].workspaceId].tabs =
                        captureDescriptors(tabsQuery(procs[s].windowId))
                 /\ getLastHash(store', procs[s].workspaceId) =
                        quickHash(store'[procs[s].workspaceId].tabs)]_vars

\* deleteWorkspace(ws) is suspended on one of its awaits.
Deleting(ws) ==
    \E s \in Slots :
        /\ procs[s].pc \in {"dl_data", "dl_loop", "dl_save"}
        /\ procs[s].workspaceId = ws

\* Workspace ws existed and a deleteWorkspace(ws) has completed: its id was
\* handed out, the registry has no entry for it and no delete is running.
DeleteCompleted(ws) ==
    /\ ws < nextWsId
    /\ ws \notin IndexIds(workspaceIndex)
    /\ ~Deleting(ws)

\* C24: once deleteWorkspace(W) has completed, no step of any handler
\* writes a snapshot, version or fingerprint for W: neither a debounce
\* timer armed before the delete nor a capture already in flight recreates
\* stored data for W.
DeletedStaysDeleted ==
    [][\A ws \in WsIds : DeleteCompleted(ws) => store'[ws] = store[ws]]_vars

\* C25: whenever no handler is suspended, every workspace id that is a
\* value of the binding table is the id of an entry of the in-memory
\* registry, whatever creates, opens, deletes, window closes and remote
\* registry replacements came before.
BoundWorkspacesRegistered ==
    Quiet => \A w \in WindowIds :
        windowBindings[w] # Undefined =>
            windowBindings[w] \in IndexIds(workspaceIndex)

====
